---- MODULE Spec2Model ----
(***************************************************************************)
(* The HTTP gateway of server.js as a state machine.                       *)
(*                                                                         *)
(* One Node process serves requests on a single-threaded event loop: a     *)
(* handler runs without interruption up to its next await, so every        *)
(* action below is one such synchronous segment (middleware chain plus     *)
(* handler code up to the await, or a continuation after it).  The state   *)
(* is the clock read by Date.now(), the files under /tmp, each request's   *)
(* handler locals (req) and each request's response object (res).          *)
(***************************************************************************)
EXTENDS Integers, Sequences, FiniteSets, TLC

VARIABLES
    now,      \* the value Date.now() returns, in milliseconds
    fs,       \* /tmp/record-<ms>.webm, indexed by <ms>
    req,      \* per request: route, pc and the handler's locals
    res,      \* per request: the Express response object
    alive     \* FALSE once the process died of an unhandled rejection

vars == <<now, fs, req, res, alive>>

(***************************************************************************)
(* Bounds.                                                                 *)
(***************************************************************************)
MaxReq == 2      \* requests served by the concurrent specification
MaxTime == 1     \* milliseconds the clock may advance
MaxLen == 3      \* longest provider text
MaxBytes == 2    \* longest audio payload

Requests == 1..MaxReq
Paths == 0..MaxTime

SeqsUpTo(S, n) == UNION {[1..k -> S] : k \in 0..n}

WhiteSpace == {" "}
Chars == WhiteSpace \cup {"a"}
Strings == SeqsUpTo(Chars, MaxLen)
Bytes == {0, 1}
Buffers == SeqsUpTo(Bytes, MaxBytes)

(***************************************************************************)
(* JavaScript values: undefined or a string (a sequence of characters).    *)
(***************************************************************************)
Undefined == [def |-> FALSE]
Str(s) == [def |-> TRUE, s |-> s]

\* !v for v undefined or a string: undefined and "" are falsy
Falsy(v) == ~v.def \/ v.s = <<>>

RECURSIVE TrimStart(_)
TrimStart(s) ==
    IF s # <<>> /\ Head(s) \in WhiteSpace THEN TrimStart(Tail(s)) ELSE s

RECURSIVE TrimEnd(_)
TrimEnd(s) ==
    IF s # <<>> /\ s[Len(s)] \in WhiteSpace
    THEN TrimEnd(SubSeq(s, 1, Len(s) - 1))
    ELSE s

\* String.prototype.trim
Trim(s) == TrimEnd(TrimStart(s))

\* the same without the trim()
ContentOrEmptyUntrimmed(content) == IF content.def THEN content.s ELSE <<>>

\* resp?.choices?.[0]?.message?.content?.trim() || ""
ContentOrEmpty(content) == IF content.def THEN Trim(content.s) ELSE <<>>

\* transcription?.text || ""
TextOrEmpty(text) == IF text.def THEN text.s ELSE <<>>

(***************************************************************************)
(* Outcomes of an awaited provider call.                                   *)
(***************************************************************************)
NoReply == [kind |-> "none"]
Ok(v) == [kind |-> "ok", val |-> v]
Err(m) == [kind |-> "err", msg |-> m]

Messages == {"401 invalid api key", "429 rate limit"}

(***************************************************************************)
(* The response object.                                                    *)
(***************************************************************************)
NoHeaders == [h \in {} |-> ""]
SetHeader(h, name, value) == (name :> value) @@ h

NewRes == [sent |-> 0, status |-> 200, headers |-> NoHeaders,
           body |-> [type |-> "none"]]

\* res.status(code)
Status(r, code) == [r EXCEPT !.status = code]

\* res.json(obj): application/json unless a Content-Type is already set
Json(r, obj) ==
    [r EXCEPT !.sent = @ + 1,
              !.headers = IF "Content-Type" \in DOMAIN @ THEN @
                          ELSE SetHeader(@, "Content-Type", "application/json"),
              !.body = [type |-> "json", json |-> obj]]

\* res.send(buffer)
Send(r, buffer) ==
    [r EXCEPT !.sent = @ + 1,
              !.headers = SetHeader(@, "Content-Length", Len(buffer)),
              !.body = [type |-> "binary", bytes |-> buffer]]

(***************************************************************************)
(* Per-request handler state.                                              *)
(***************************************************************************)
NoStream == [st |-> "none"]
NewReq == [route |-> "none", pc |-> "idle", body |-> [type |-> "none"],
           calls |-> 0, tmpPath |-> -1, stream |-> NoStream,
           reply |-> NoReply, raised |-> "none"]

Init ==
    /\ now = 0
    /\ fs = [p \in Paths |-> [exists |-> FALSE]]
    /\ req = [r \in Requests |-> NewReq]
    /\ res = [r \in Requests |-> NewRes]
    /\ alive = TRUE

(***************************************************************************)
(* Middleware registered with app.use, run before every route.             *)
(***************************************************************************)
AllowedMethods == "GET,HEAD,PUT,PATCH,POST,DELETE"

\* cors() on a request that is not a preflight: adds the origin header, next()
Cors(r) == [r EXCEPT !.headers = SetHeader(@, "Access-Control-Allow-Origin", "*")]

\* cors() on OPTIONS, default options (preflightContinue false,
\* optionsSuccessStatus 204): it ends the response itself and never calls
\* next(); Access-Control-Allow-Headers reflects the request's
\* Access-Control-Request-Headers and is left out when that header is absent.
CorsPreflight(r, requested) ==
    LET h1 == SetHeader(r.headers, "Access-Control-Allow-Origin", "*")
        h2 == SetHeader(h1, "Access-Control-Allow-Methods", AllowedMethods)
        h3 == IF requested.def
              THEN SetHeader(h2, "Access-Control-Allow-Headers", requested.s)
              ELSE h2
        h4 == SetHeader(h3, "Content-Length", 0)
    IN  [r EXCEPT !.sent = @ + 1, !.status = 204, !.headers = h4,
                  !.body = [type |-> "empty"]]

\* app.options("/*") handler
OptionsRoute(r) ==
    LET h1 == SetHeader(r.headers, "Access-Control-Allow-Origin", "*")
        h2 == SetHeader(h1, "Access-Control-Allow-Methods", "POST, GET, OPTIONS")
        h3 == SetHeader(h2, "Access-Control-Allow-Headers", "Content-Type")
    IN  [r EXCEPT !.sent = @ + 1, !.status = 200, !.headers = h3,
                  !.body = [type |-> "text", text |-> "OK"]]

\* next(err) with no error-handling middleware registered: Express answers
\* with its own HTML error page
DefaultErrorHandler(r, code) ==
    [r EXCEPT !.sent = @ + 1, !.status = code,
              !.headers = SetHeader(@, "Content-Type", "text/html; charset=utf-8"),
              !.body = [type |-> "html"]]

(***************************************************************************)
(* Request bodies.                                                         *)
(***************************************************************************)
Malformed == [type |-> "malformed"]
\* F is the set of values a field of the JSON body may take
TranslateBodies(F) ==
    {[type |-> "json", json |-> [text |-> t, targetLanguage |-> l]] :
        t \in F, l \in F} \cup {Malformed}
ChatBodies(F) ==
    {[type |-> "json", json |-> [message |-> m, language |-> l]] :
        m \in F, l \in F} \cup {Malformed}
SpeechBodies(F) ==
    {[type |-> "json", json |-> [text |-> t]] : t \in F} \cup {Malformed}
\* multipart/form-data: no file part, a file part named "audio" holding the
\* bytes b, or a file part under another field name
Uploads(B) ==
    {[type |-> "multipart", field |-> f] : f \in {"none", "file"}}
        \cup {[type |-> "multipart", field |-> "audio", buffer |-> b] : b \in B}

(***************************************************************************)
(* Building blocks of the handlers.                                        *)
(***************************************************************************)
\* a request is taken off the socket; ids number the requests in arrival order
Arrives(r) ==
    /\ alive
    /\ req[r].pc = "idle"
    /\ r > 1 => req[r - 1].pc # "idle"

Suspended(r, route) ==
    /\ alive
    /\ req[r].route = route
    /\ req[r].pc = "await"

\* a catch block that answers without the provider's message
CatchBlockNoDetails(r, error, message) ==
    Json(Status(r, 500), [error |-> error])

\* the catch block of a handler
CatchBlock(r, error, message) ==
    Json(Status(r, 500), [error |-> error, details |-> message])

\* an exception thrown at `where` inside the handler's try block.  res.json
\* throws once a response has been sent, and a throw inside the catch block
\* rejects the async handler's promise, which nobody handles: the process dies
Caught(r, q, rs, where, error, message) ==
    /\ req' = [req EXCEPT ![r] = [q EXCEPT !.pc = "done", !.raised = where]]
    /\ IF rs.sent = 0
       THEN /\ res' = [res EXCEPT ![r] = CatchBlock(rs, error, message)]
            /\ alive' = alive
       ELSE /\ res' = [res EXCEPT ![r] = rs]
            /\ alive' = FALSE

\* the request ends with the response built by `answer`
Answered(r, q, answer) ==
    /\ req' = [req EXCEPT ![r] = [q EXCEPT !.pc = "done"]]
    /\ res' = [res EXCEPT ![r] = answer]
    /\ alive' = alive

\* express.json() rejects the body: next(err) with status 400
BodyRejected(r, q) ==
    /\ req' = [req EXCEPT ![r] = [q EXCEPT !.pc = "done", !.raised = "middleware"]]
    /\ res' = [res EXCEPT ![r] = DefaultErrorHandler(Cors(@), 400)]
    /\ alive' = alive

\* a handler that issues the provider call again when it is slow to answer
AwaitsRetrying(r, q) ==
    /\ req' = [req EXCEPT ![r] = [q EXCEPT !.pc = "await", !.calls = @ + 2]]
    /\ res' = [res EXCEPT ![r] = Cors(@)]
    /\ alive' = alive

\* the handler issues its provider call and suspends at the await
Awaits(r, q) ==
    /\ req' = [req EXCEPT ![r] = [q EXCEPT !.pc = "await", !.calls = @ + 1]]
    /\ res' = [res EXCEPT ![r] = Cors(@)]
    /\ alive' = alive

(***************************************************************************)
(* POST /translate                                                         *)
(***************************************************************************)
\* a check that forgets targetLanguage
TranslateInvalidTextOnly(body) == Falsy(body.text)

\* !text || !targetLanguage
TranslateInvalid(body) == Falsy(body.text) \/ Falsy(body.targetLanguage)

TranslateStart(r, body) ==
    /\ Arrives(r)
    /\ LET q == [req[r] EXCEPT !.route = "translate", !.body = body]
       IN  IF body.type = "malformed" THEN BodyRejected(r, q)
           ELSE IF TranslateInvalid(body.json)
           THEN Answered(r, q, Json(Status(Cors(res[r]), 400),
                                    [error |-> "Missing text or targetLanguage"]))
           ELSE Awaits(r, q)
    /\ UNCHANGED <<now, fs>>

TranslateResume(r, outcome) ==
    /\ Suspended(r, "translate")
    /\ LET q == [req[r] EXCEPT !.reply = outcome]
       IN  IF outcome.kind = "ok"
           THEN Answered(r, q, Json(res[r], [result |-> ContentOrEmpty(outcome.val)]))
           ELSE Caught(r, q, res[r], "provider", "Translate failed", outcome.msg)
    /\ UNCHANGED <<now, fs>>

(***************************************************************************)
(* POST /chat                                                              *)
(***************************************************************************)
\* !message
ChatInvalid(body) == Falsy(body.message)

ChatStart(r, body) ==
    /\ Arrives(r)
    /\ LET q == [req[r] EXCEPT !.route = "chat", !.body = body]
       IN  IF body.type = "malformed" THEN BodyRejected(r, q)
           ELSE IF ChatInvalid(body.json)
           THEN Answered(r, q, Json(Status(Cors(res[r]), 400),
                                    [error |-> "Missing message"]))
           ELSE Awaits(r, q)
    /\ UNCHANGED <<now, fs>>

ChatResume(r, outcome) ==
    /\ Suspended(r, "chat")
    /\ LET q == [req[r] EXCEPT !.reply = outcome]
       IN  IF outcome.kind = "ok"
           THEN Answered(r, q, Json(res[r], [reply |-> ContentOrEmpty(outcome.val)]))
           ELSE Caught(r, q, res[r], "provider", "Chat failed", outcome.msg)
    /\ UNCHANGED <<now, fs>>

(***************************************************************************)
(* POST /voice-to-text                                                     *)
(***************************************************************************)
NoFile == [exists |-> FALSE]
\* writer is the request whose writeFileSync produced the content
File(writer, data) == [exists |-> TRUE, writer |-> writer, data |-> data]

\* `/tmp/record-${Date.now()}.webm`
TmpPath(r) == now

\* fs.unlinkSync inside try {} catch(e){}: a missing file is ignored
Unlink(files, path) == [files EXCEPT ![path] = NoFile]

\* what the provider call rejects with when its read stream fails to open
StreamError == Err("ENOENT: no such file or directory")

\* the multer middleware and the synchronous part of the handler: upload is
\* the multipart body, diskOk tells whether fs.writeFileSync succeeds
VoiceToTextStart(r, upload, diskOk) ==
    /\ Arrives(r)
    /\ LET q == [req[r] EXCEPT !.route = "voice-to-text", !.body = upload]
           rs == Cors(res[r])
       IN  IF upload.field = "file"
           THEN \* MulterError "Unexpected field": next(err)
                /\ req' = [req EXCEPT ![r] =
                              [q EXCEPT !.pc = "done", !.raised = "middleware"]]
                /\ res' = [res EXCEPT ![r] = DefaultErrorHandler(rs, 500)]
                /\ UNCHANGED <<fs, alive>>
           ELSE IF upload.field = "none"
           THEN /\ Answered(r, q, Json(Status(rs, 400),
                                       [error |-> "No audio file uploaded"]))
                /\ UNCHANGED fs
           ELSE IF ~diskOk
           THEN /\ Caught(r, q, rs, "writeFileSync",
                          "Voice-to-text failed", "ENOSPC: no space left on device")
                /\ UNCHANGED fs
           ELSE /\ fs' = [fs EXCEPT ![TmpPath(r)] = File(r, upload.buffer)]
                /\ req' = [req EXCEPT ![r] =
                              [q EXCEPT !.pc = "await", !.calls = @ + 1,
                                        !.tmpPath = TmpPath(r),
                                        !.stream = [st |-> "open"]]]
                /\ res' = [res EXCEPT ![r] = rs]
                /\ alive' = alive
    /\ UNCHANGED now

\* the stream of fs.createReadStream(tmpPath) is opened and drained by the
\* provider client after the handler has suspended
VoiceToTextRead(r) ==
    /\ Suspended(r, "voice-to-text")
    /\ req[r].stream.st = "open"
    /\ LET f == fs[req[r].tmpPath]
       IN  req' = [req EXCEPT ![r].stream =
                      IF f.exists THEN [st |-> "read", data |-> f.data]
                      ELSE [st |-> "error"]]
    /\ UNCHANGED <<now, fs, res, alive>>

\* the continuation after await openai.audio.transcriptions.create(...)
VoiceToTextResume(r, outcome) ==
    /\ Suspended(r, "voice-to-text")
    /\ outcome.kind = "ok" => req[r].stream.st = "read"
    /\ req[r].stream.st = "error" <=> outcome = StreamError
    /\ LET q == [req[r] EXCEPT !.reply = outcome]
       IN  IF outcome.kind = "ok"
           THEN /\ fs' = Unlink(fs, q.tmpPath)
                /\ Answered(r, q, Json(res[r], [text |-> TextOrEmpty(outcome.val)]))
           ELSE /\ fs' = fs
                /\ Caught(r, q, res[r], "provider", "Voice-to-text failed", outcome.msg)
    /\ UNCHANGED now

(***************************************************************************)
(* POST /text-to-voice                                                     *)
(***************************************************************************)
\* !text
SpeechInvalid(body) == Falsy(body.text)

TextToVoiceStart(r, body) ==
    /\ Arrives(r)
    /\ LET q == [req[r] EXCEPT !.route = "text-to-voice", !.body = body]
       IN  IF body.type = "malformed" THEN BodyRejected(r, q)
           ELSE IF SpeechInvalid(body.json)
           THEN Answered(r, q, Json(Status(Cors(res[r]), 400),
                                    [error |-> "Missing text"]))
           ELSE Awaits(r, q)
    /\ UNCHANGED <<now, fs>>

\* the continuation after await openai.audio.speech.create(...): the handler
\* suspends again on speech.arrayBuffer()
TextToVoiceSpeech(r, outcome) ==
    /\ Suspended(r, "text-to-voice")
    /\ LET q == [req[r] EXCEPT !.reply = outcome]
       IN  IF outcome.kind = "ok"
           THEN /\ req' = [req EXCEPT ![r] = [q EXCEPT !.pc = "body"]]
                /\ UNCHANGED <<res, alive>>
           ELSE Caught(r, q, res[r], "provider", "TTS failed", outcome.msg)
    /\ UNCHANGED <<now, fs>>

\* a response that leaves the type of the body to Express
SendAudioUntyped(r, buffer) == Send(r, buffer)

\* res.setHeader x 2, res.send(buffer)
SendAudio(r, buffer) ==
    Send([r EXCEPT !.headers =
             SetHeader(SetHeader(@, "Content-Type", "audio/mpeg"),
                       "Content-Length", Len(buffer))],
         buffer)

\* the continuation after await speech.arrayBuffer(); bodyOk tells whether
\* the provider's body could be read to its end
TextToVoiceBody(r, bodyOk) ==
    /\ alive
    /\ req[r].route = "text-to-voice"
    /\ req[r].pc = "body"
    /\ IF bodyOk
       THEN Answered(r, req[r], SendAudio(res[r], req[r].reply.val))
       ELSE Caught(r, req[r], res[r], "arrayBuffer", "TTS failed", "terminated")
    /\ UNCHANGED <<now, fs>>

(***************************************************************************)
(* OPTIONS /*                                                              *)
(***************************************************************************)
\* Whether cors() hands a preflight on to the routes (its preflightContinue
\* option, which app.use(cors()) leaves at its default)
PreflightContinue == FALSE

\* requested is the request's Access-Control-Request-Headers header
Options(r, requested) ==
    /\ Arrives(r)
    /\ LET q == [req[r] EXCEPT !.route = "options",
                               !.body = [type |-> "preflight",
                                         requested |-> requested]]
       IN  IF PreflightContinue
           THEN Answered(r, q, OptionsRoute(res[r]))
           ELSE Answered(r, q, CorsPreflight(res[r], requested))
    /\ UNCHANGED <<now, fs>>

(***************************************************************************)
(* The clock.                                                              *)
(***************************************************************************)
Tick ==
    /\ now < MaxTime
    /\ now' = now + 1
    /\ UNCHANGED <<fs, req, res, alive>>

(***************************************************************************)
(* Specifications.  An environment E names what the clients and the        *)
(* provider may send: the values of a JSON field, the provider's texts,    *)
(* the audio payloads and the provider's error messages.                   *)
(***************************************************************************)
TextOutcomes(E) == {Ok(t) : t \in E.texts} \cup {Err(m) : m \in E.messages}
SpeechOutcomes(E) == {Ok(b) : b \in E.buffers} \cup {Err(m) : m \in E.messages}

Serve(r, E) ==
    \/ \E body \in TranslateBodies(E.fields) : TranslateStart(r, body)
    \/ \E outcome \in TextOutcomes(E) : TranslateResume(r, outcome)
    \/ \E body \in ChatBodies(E.fields) : ChatStart(r, body)
    \/ \E outcome \in TextOutcomes(E) : ChatResume(r, outcome)
    \/ \E upload \in Uploads(E.buffers), diskOk \in BOOLEAN :
           VoiceToTextStart(r, upload, diskOk)
    \/ VoiceToTextRead(r)
    \/ \E outcome \in TextOutcomes(E) \cup {StreamError} :
           VoiceToTextResume(r, outcome)
    \/ \E body \in SpeechBodies(E.fields) : TextToVoiceStart(r, body)
    \/ \E outcome \in SpeechOutcomes(E) : TextToVoiceSpeech(r, outcome)
    \/ \E bodyOk \in BOOLEAN : TextToVoiceBody(r, bodyOk)
    \/ \E requested \in E.fields : Options(r, requested)

\* Concurrent requests, a few representative inputs each
Few ==
    [fields |-> {Undefined, Str(<<"a">>)},
     texts |-> {Str(<<" ", "a">>)},
     buffers |-> {<<0>>, <<1>>},
     messages |-> Messages]

Next ==
    \/ Tick
    \/ \E r \in Requests : Serve(r, Few)

Spec == Init /\ [][Next]_vars

\* One request, every input up to the bounds
All ==
    [fields |-> {Undefined, Str(<<>>), Str(<<"a">>)},
     texts |-> {Undefined} \cup {Str(s) : s \in Strings},
     buffers |-> Buffers,
     messages |-> Messages]

NextSolo ==
    \/ Tick
    \/ Serve(1, All)

SpecSolo == Init /\ [][NextSolo]_vars

(***************************************************************************)
(* Vocabulary of the properties.                                           *)
(***************************************************************************)
Done(r) == req[r].pc = "done"
JsonBody(r) == res[r].body.type = "json"
JsonError(r) == JsonBody(r) /\ "error" \in DOMAIN res[r].body.json
HasHeader(r, name, value) ==
    name \in DOMAIN res[r].headers /\ res[r].headers[name] = value
FileOf(r, p) == fs[p].exists /\ fs[p].writer = r
CarriesAudio(r) ==
    req[r].route = "voice-to-text" /\ req[r].body.field = "audio"
InFlightVoice(r) == req[r].route = "voice-to-text" /\ req[r].pc = "await"

\* the request lacks a field its route requires
MissingField(r) ==
    \/ /\ req[r].route = "translate" /\ req[r].body.type = "json"
       /\ ~req[r].body.json.text.def \/ ~req[r].body.json.targetLanguage.def
    \/ /\ req[r].route = "chat" /\ req[r].body.type = "json"
       /\ ~req[r].body.json.message.def
    \/ /\ req[r].route = "text-to-voice" /\ req[r].body.type = "json"
       /\ ~req[r].body.json.text.def
    \/ /\ req[r].route = "voice-to-text" /\ req[r].body.field = "none"

\* the request went through its route's validation
Validated(r) ==
    \/ /\ req[r].route = "translate" /\ req[r].body.type = "json"
       /\ ~Falsy(req[r].body.json.text)
       /\ ~Falsy(req[r].body.json.targetLanguage)
    \/ /\ req[r].route = "chat" /\ req[r].body.type = "json"
       /\ ~Falsy(req[r].body.json.message)
    \/ /\ req[r].route = "text-to-voice" /\ req[r].body.type = "json"
       /\ ~Falsy(req[r].body.json.text)
    \/ CarriesAudio(r)

FailureName(route) ==
    CASE route = "translate" -> "Translate failed"
      [] route = "chat" -> "Chat failed"
      [] route = "voice-to-text" -> "Voice-to-text failed"
      [] route = "text-to-voice" -> "TTS failed"
      [] OTHER -> "none"

\* t is c without its leading and trailing white space
IsTrimOf(t, c) ==
    /\ \E i, j \in 0..Len(c) :
          /\ i + j <= Len(c)
          /\ t = SubSeq(c, i + 1, Len(c) - j)
          /\ \A k \in 1..i : c[k] \in WhiteSpace
          /\ \A k \in (Len(c) - j + 1)..Len(c) : c[k] \in WhiteSpace
    /\ t # <<>> => t[1] \notin WhiteSpace /\ t[Len(t)] \notin WhiteSpace

(***************************************************************************)
(* C1: once a /voice-to-text request that carried audio has been answered  *)
(* with 200 or 500, no temp file written by that request exists.           *)
(***************************************************************************)
TempFileRemoved ==
    \A r \in Requests :
        (CarriesAudio(r) /\ Done(r) /\ res[r].status \in {200, 500})
            => \A p \in Paths : ~FileOf(r, p)

(***************************************************************************)
(* C2: no two /voice-to-text requests whose transcription call has not     *)
(* completed use the same temp file path.                                  *)
(***************************************************************************)
UniqueTmpPaths ==
    \A r1, r2 \in Requests :
        (r1 # r2 /\ InFlightVoice(r1) /\ InFlightVoice(r2))
            => req[r1].tmpPath # req[r2].tmpPath

(***************************************************************************)
(* C3: a request whose provider call threw has been answered, once, with   *)
(* 500 and a JSON body whose error names the failing operation and whose   *)
(* details hold the provider's message; the process stays alive.           *)
(***************************************************************************)
ProviderFailureIs500 ==
    /\ alive
    /\ \A r \in Requests :
          req[r].reply.kind = "err" =>
              /\ Done(r)
              /\ res[r].sent = 1
              /\ res[r].status = 500
              /\ JsonBody(r)
              /\ DOMAIN res[r].body.json = {"error", "details"}
              /\ res[r].body.json.error = FailureName(req[r].route)
              /\ res[r].body.json.details = req[r].reply.msg

\* a provider failure answered with 500, and a later request served
ProviderFailureWitness ==
    /\ req[1].route = "text-to-voice" /\ req[1].reply.kind = "err"
    /\ res[1].status = 500
    /\ req[2].route = "translate" /\ Done(2) /\ res[2].status = 200

(***************************************************************************)
(* C4: a request missing a required field is answered with 400 and a JSON  *)
(* body with an error field, and nothing else happens for it: no provider  *)
(* call, no temp file.                                                     *)
(***************************************************************************)
MissingFieldIs400 ==
    \A r \in Requests :
        MissingField(r) =>
            /\ Done(r)
            /\ res[r].sent = 1
            /\ res[r].status = 400
            /\ JsonError(r)
            /\ req[r].calls = 0
            /\ req[r].reply = NoReply
            /\ req[r].tmpPath = -1
            /\ \A p \in Paths : ~FileOf(r, p)

\* /translate with text but no targetLanguage, and /voice-to-text with no
\* file while another request's temp file exists
MissingFieldWitness ==
    /\ req[1].route = "translate" /\ req[1].body.type = "json"
    /\ req[1].body.json.text.def /\ ~req[1].body.json.targetLanguage.def
    /\ res[1].status = 400
    /\ req[2].route = "voice-to-text" /\ req[2].body.field = "none"
    /\ res[2].status = 400

(***************************************************************************)
(* C5 as stated: every request that passed validation and was answered     *)
(* issued exactly one provider operation.                                  *)
(***************************************************************************)
ExactlyOneProviderCall ==
    \A r \in Requests : (Validated(r) /\ Done(r)) => req[r].calls = 1

(***************************************************************************)
(* C5 as amended: a request that passed validation issues exactly one      *)
(* provider operation, or none when writing the /voice-to-text temp file   *)
(* threw before the call; a provider failure is never retried, the 500     *)
(* comes straight from the first failure.                                  *)
(***************************************************************************)
OneProviderCallUnlessWriteFails ==
    \A r \in Requests :
        /\ Validated(r) =>
              req[r].calls = IF req[r].raised = "writeFileSync" THEN 0 ELSE 1
        /\ ~Validated(r) => req[r].calls = 0
        /\ req[r].reply.kind = "err" =>
              Done(r) /\ res[r].status = 500 /\ req[r].calls = 1

\* one request answered after its only provider call failed, another one
\* answered without a call because the temp file could not be written
OneProviderCallWitness ==
    \E r1, r2 \in Requests :
        /\ Validated(r1) /\ Done(r1) /\ req[r1].reply.kind = "err"
        /\ req[r1].calls = 1 /\ res[r1].status = 500
        /\ Validated(r2) /\ Done(r2) /\ req[r2].raised = "writeFileSync"
        /\ req[r2].calls = 0

(***************************************************************************)
(* C6: every request is answered at most once, an answered request exactly *)
(* once, and a request during whose handling an exception was raised is    *)
(* answered with a JSON body that has an error field.                      *)
(***************************************************************************)
ExceptionsAnsweredAsJson ==
    \A r \in Requests :
        /\ res[r].sent <= 1
        /\ Done(r) => res[r].sent = 1
        /\ (Done(r) /\ req[r].raised # "none") => JsonError(r)

(***************************************************************************)
(* C7: when the speech provider returned N bytes, /text-to-voice answers   *)
(* 200 with exactly those bytes, Content-Type audio/mpeg and               *)
(* Content-Length N.                                                       *)
(***************************************************************************)
SpeechBytesRelayed ==
    \A r \in Requests :
        (/\ req[r].route = "text-to-voice" /\ Done(r)
         /\ req[r].reply.kind = "ok" /\ req[r].raised = "none")
            => /\ res[r].sent = 1
               /\ res[r].status = 200
               /\ res[r].body.type = "binary"
               /\ res[r].body.bytes = req[r].reply.val
               /\ HasHeader(r, "Content-Type", "audio/mpeg")
               /\ HasHeader(r, "Content-Length", Len(req[r].reply.val))

SpeechBytesWitness ==
    \E r \in Requests :
        /\ req[r].route = "text-to-voice" /\ Done(r)
        /\ req[r].reply.kind = "ok" /\ req[r].raised = "none"
        /\ Len(req[r].reply.val) = 2
        /\ res[r].body.type = "binary" /\ Len(res[r].body.bytes) = 2

(***************************************************************************)
(* C8: an OPTIONS request is answered with 200 and the three headers       *)
(* Access-Control-Allow-Origin, -Methods and -Headers.                     *)
(***************************************************************************)
PreflightIs200WithCorsHeaders ==
    \A r \in Requests :
        (req[r].route = "options" /\ Done(r))
            => /\ res[r].status = 200
               /\ {"Access-Control-Allow-Origin",
                   "Access-Control-Allow-Methods",
                   "Access-Control-Allow-Headers"} \subseteq DOMAIN res[r].headers

(***************************************************************************)
(* C9: on success /translate answers 200 {result}, /chat 200 {reply} and   *)
(* /voice-to-text 200 {text}; the value is the provider's text (content    *)
(* without leading and trailing white space for /translate and /chat, the  *)
(* text field as it is for /voice-to-text) and "" when the provider's      *)
(* response has none.                                                      *)
(***************************************************************************)
ResultKey(route) ==
    CASE route = "translate" -> "result"
      [] route = "chat" -> "reply"
      [] OTHER -> "text"

ProviderTextReturned ==
    \A r \in Requests :
        (/\ req[r].route \in {"translate", "chat", "voice-to-text"}
         /\ req[r].reply.kind = "ok")
            => /\ Done(r)
               /\ res[r].sent = 1
               /\ res[r].status = 200
               /\ JsonBody(r)
               /\ DOMAIN res[r].body.json = {ResultKey(req[r].route)}
               /\ LET value == res[r].body.json[ResultKey(req[r].route)]
                      text == req[r].reply.val
                  IN  IF ~text.def THEN value = <<>>
                      ELSE IF req[r].route = "voice-to-text" THEN value = text.s
                      ELSE IsTrimOf(value, text.s)

\* white space on both sides of the content has been removed
ProviderTextWitness ==
    \E r \in Requests :
        /\ req[r].route = "translate" /\ req[r].reply.kind = "ok"
        /\ req[r].reply.val = Str(<<" ", "a", " ">>)
        /\ res[r].status = 200 /\ JsonBody(r)
        /\ res[r].body.json = [result |-> <<"a">>]

(***************************************************************************)
(* C10: the audio read for a /voice-to-text request is the bytes that      *)
(* request uploaded, and while its transcription has not finished the      *)
(* file it wrote has not been deleted.                                     *)
(***************************************************************************)
VoiceRequestsIsolated ==
    \A r \in Requests :
        (CarriesAudio(r) /\ req[r].tmpPath \in Paths)
            => /\ req[r].stream.st = "read"
                    => req[r].stream.data = req[r].body.buffer
               /\ req[r].pc = "await" => fs[req[r].tmpPath].exists
====
